---- MODULE Spec2Model ----
(***************************************************************************)
(* NDVICalc (marvingabler/ndvicalc): one NDVICalc object and one           *)
(* invocation of calc_ndvi on it, step by step: geometry resolution, band  *)
(* discovery, and for each band the pixel window, the windowed read, the   *)
(* reprojection through a temporary file and the polygon mask, then the    *)
(* index and its statistics.                                               *)
(* SpecSeq is the package's object called again and again.                 *)
(*                                                                         *)
(* Two revisions of the script are in the repository: the package          *)
(* src/ndvicalc/ndvi.py and the older src/ndvi_cli/ndvi.py.  rev says      *)
(* which one runs.                                                         *)
(*                                                                         *)
(* Stand-ins for the libraries: longitude/latitude are whole degrees, the  *)
(* projection to the raster's CRS is linear (UnitsPerDeg native units per  *)
(* degree), so one pixel of PixelSize native units covers one degree.      *)
(* Floats are exact rationals [num, den].                                  *)
(***************************************************************************)
EXTENDS Integers, Sequences, FiniteSets, TLC

\* ---------------------------------------------------------------- bounds
MaxDeg == 2        \* polygon corners have lon, lat in 0..MaxDeg
MaxCells == 2      \* a polygon's bounding box covers at most MaxCells pixels
MaxRefl == 2       \* pixel values are 0..MaxRefl, or NaN
MaxSize == 2       \* a raster is 1..MaxSize pixels wide and high
MaxFeatures == 2   \* a FeatureCollection holds 0..MaxFeatures features
MaxItems == 2      \* the catalog search returns 0..MaxItems items
MaxDate == 2       \* item dates are 1..MaxDate

\* ------------------------------------------------------ program constants
PixelSize == 10    \* ground resolution of bands 4 and 8, native units
UnitsPerDeg == 10  \* the linear stand-in for pyproj's 4326 -> native CRS
HttpOk == 200

\* ---------------------------------------------------------------- values
None == [none |-> TRUE]
Masked == [masked |-> TRUE]      \* numpy.ma.masked, printed as "--"

SetMin(S) == CHOOSE x \in S : \A y \in S : x <= y
SetMax(S) == CHOOSE x \in S : \A y \in S : x >= y
Abs(x) == IF x < 0 THEN -x ELSE x

RECURSIVE GCD(_, _)
GCD(a, b) == IF b = 0 THEN a ELSE GCD(b, a % b)

\* A float, as the exact rational n/d in lowest terms with d > 0.
Rat(n, d) ==
    LET g == GCD(Abs(n), Abs(d))
        s == IF d < 0 THEN -1 ELSE 1
    IN  [num |-> (s * n) \div g, den |-> (s * d) \div g]
RatAdd(a, b) == Rat(a.num * b.den + b.num * a.den, a.den * b.den)
RatSub(a, b) == Rat(a.num * b.den - b.num * a.den, a.den * b.den)
RatMul(a, b) == Rat(a.num * b.num, a.den * b.den)
RatDiv(a, b) == Rat(a.num * b.den, a.den * b.num)
RatLe(a, b) == a.num * b.den <= b.num * a.den
FromInt(n) == [num |-> n, den |-> 1]

\* ------------------------------------------------- GeoJSON input documents
\* A rectangle polygon: one closed ring of [lon, lat] positions.
Rect(w, s, e, n) ==
    [type |-> "Polygon",
     coordinates |-> << << <<w, s>>, <<e, s>>, <<e, n>>, <<w, n>>, <<w, s>> >> >>]

Boxes ==
    { b \in (0..MaxDeg) \X (0..MaxDeg) \X (0..MaxDeg) \X (0..MaxDeg) :
        /\ b[1] < b[3]
        /\ b[2] < b[4]
        /\ (b[3] - b[1]) * (b[4] - b[2]) <= MaxCells }
Polygons == { Rect(b[1], b[2], b[3], b[4]) : b \in Boxes }

Features ==
    { [type |-> "Feature", properties |-> None, geometry |-> g] : g \in Polygons }
FeatureCollections ==
    { [type |-> "FeatureCollection", features |-> fs] :
        fs \in UNION { [1..k -> Features] : k \in 0..MaxFeatures } }
\* Parsed JSON of any other kind: a bare geometry, a document of a foreign
\* type, a document without a "type" member.
OtherDocs ==
    Polygons \cup { [type |-> "Topology", objects |-> None], [name |-> "aoi"] }
Malformed == [malformed |-> TRUE]      \* bytes that are not JSON
Bodies == Features \cup FeatureCollections \cup OtherDocs \cup {Malformed}

\* What file_path names: a local file, or a URL and the status of its GET.
Sources ==
    { [kind |-> "path", status |-> HttpOk, body |-> b] : b \in Bodies } \cup
    { [kind |-> "url", status |-> st, body |-> b] : st \in {HttpOk, 404}, b \in Bodies }

Revisions == {"ndvicalc", "ndvi_cli"}

\* ------------------------------------------------- outcomes of a function
Return(v, msgs) == [kind |-> "return", val |-> v, exc |-> "", out |-> msgs]
Raise(e, msgs) == [kind |-> "raise", val |-> None, exc |-> e, out |-> msgs]

Msg(text, v) == [msg |-> text, val |-> v]

\* ------------------------------------------------------ _get_file_geometry
\* requests.get / resp.json() / open / json.load
FetchContent(src) ==
    IF src.kind = "url" /\ src.status # HttpOk
    THEN [kind |-> "unreachable", val |-> None]
    ELSE IF src.body = Malformed
    THEN [kind |-> "JSONDecodeError", val |-> None]
    ELSE [kind |-> "content", val |-> src.body]

\* ParseContent taking the last feature of a collection, not the first
ParseContent_last(content) ==
    IF "type" \notin DOMAIN content
    THEN Raise("KeyError", <<>>)
    ELSE IF content.type = "Feature"
    THEN Return(content.geometry, <<>>)
    ELSE IF content.type = "FeatureCollection"
    THEN IF Len(content.features) = 0
         THEN Raise("IndexError", <<>>)
         ELSE Return(content.features[Len(content.features)].geometry, <<>>)
    ELSE Return(content, <<>>)

\* "parse content": the if / elif on file_content["type"]
ParseContent(content) ==
    IF "type" \notin DOMAIN content
    THEN Raise("KeyError", <<>>)
    ELSE IF content.type = "Feature"
    THEN Return(content.geometry, <<>>)
    ELSE IF content.type = "FeatureCollection"
    THEN IF Len(content.features) = 0
         THEN Raise("IndexError", <<>>)
         ELSE Return(content.features[1].geometry,
                     IF Len(content.features) > 1
                     THEN << Msg("Found more than 1 feature, avoid this. Using feature #1", None) >>
                     ELSE <<>>)
    ELSE Return(content, <<>>)

\* The package catches JSONDecodeError around the fetch and the parse; the
\* older script fetches outside its try block.
_get_file_geometry(r, src) ==
    LET f == FetchContent(src)
    IN  IF f.kind = "unreachable"
        THEN Return(None, << Msg("File with url can not be reached.", None) >>)
        ELSE IF f.kind = "JSONDecodeError"
        THEN IF r = "ndvicalc"
             THEN Return(None, << Msg("Provided json file is not valid.", None) >>)
             ELSE Raise("JSONDecodeError", <<>>)
        ELSE ParseContent(f.val)

\* rasterio.features.bounds: (west, south, east, north) over all positions;
\* a ValueError for a mapping without coordinates, a TypeError for None.
HasCoordinates(g) == "coordinates" \in DOMAIN g
Positions(g) ==
    UNION { { g.coordinates[i][j] : j \in DOMAIN g.coordinates[i] } :
            i \in DOMAIN g.coordinates }
bounds(g) ==
    LET ps == Positions(g)
    IN  << SetMin({ p[1] : p \in ps }), SetMin({ p[2] : p \in ps }),
           SetMax({ p[1] : p \in ps }), SetMax({ p[2] : p \in ps }) >>
NoBBox == <<0, 0, 0, 0>>

\* --------------------------------------------------- get_latest_sentinel_files
\* What search.items() holds: the date of each item, in the order returned.
ItemLists == UNION { [1..k -> 1..MaxDate] : k \in 0..MaxItems }
\* ItemCollection.dates(): the distinct dates, sorted ascending; [-1] of it.
LastDate(items) == SetMax({ items[i] : i \in DOMAIN items })
\* items[0].asset(band)["href"]: the locator of a band of the first item.
Href(items, b) == [band |-> b, scene |-> items[1]]
get_latest_sentinel_files(items) ==
    IF Len(items) = 0
    THEN Raise("IndexError", <<>>)
    ELSE Return([red |-> Href(items, "red"), nir |-> Href(items, "nir")],
                << Msg("Latest data found that intersects geometry:", [date |-> LastDate(items)]) >>)

\* The dict {"red": red, "nir": nir} is iterated in insertion order.
BandOrder == <<"red", "nir">>

\* ------------------------------------------------------------ pixel window
\* A remote raster: its origin (west, north) in native units and its size in
\* pixels.
RasterGrids ==
    [left : {0, PixelSize},
     top : {MaxDeg * PixelSize, (MaxDeg - 1) * PixelSize},
     width : 1..MaxSize,
     height : 1..MaxSize]

\* Transformer.from_crs("epsg:4326", crs).transform(lat, lon) -> (x, y)
transform(lat, lon) == <<lon * UnitsPerDeg, lat * UnitsPerDeg>>
\* DatasetReader.index(x, y) -> (row, col), rounding down
index(fp, x, y) == <<(fp.top - y) \div PixelSize, (x - fp.left) \div PixelSize>>

coord_upper_left(bb) == transform(bb[4], bb[1])
coord_lower_right(bb) == transform(bb[2], bb[3])
PixelUpperLeft(fp, bb) == index(fp, coord_upper_left(bb)[1], coord_upper_left(bb)[2])
PixelLowerRight(fp, bb) == index(fp, coord_lower_right(bb)[1], coord_lower_right(bb)[2])

\* ExtendsDatafile looking at the two row numbers only
ExtendsDatafile_rows(ul, lr) == ul[1] < 0 \/ lr[1] < 0

\* for pixel in pixel_upper_left + pixel_lower_right: if pixel < 0
ExtendsDatafile(ul, lr) == \E i \in 1..4 : (ul \o lr)[i] < 0

\* Window.from_slices((row_start, row_stop), (col_start, col_stop))
WindowFromSlices(ul, lr) ==
    [row_start |-> ul[1], row_stop |-> lr[1], col_start |-> ul[2], col_stop |-> lr[2]]

\* The shape url_fp.read(1, window=window) returns: the window, cut at the
\* raster's last row and column (the read is not boundless).
Clip(start, stop, size) ==
    IF (IF stop < size THEN stop ELSE size) > start
    THEN (IF stop < size THEN stop ELSE size) - start
    ELSE 0
ReadShape(fp, win) ==
    << Clip(win.row_start, win.row_stop, fp.height),
       Clip(win.col_start, win.col_stop, fp.width) >>

\* ------------------------------------------------------------------ arrays
Cells(shape) == (1..shape[1]) \X (1..shape[2])
Size(a) == a.shape[1] * a.shape[2]
\* A pixel as stored: a reflectance, or NaN.
RawVals ==
    { [nan |-> FALSE, v |-> k] : k \in 0..MaxRefl } \cup { [nan |-> TRUE, v |-> 0] }
RawArrays(shape) == { [shape |-> shape, cells |-> c] : c \in [Cells(shape) -> RawVals] }

\* numpy.ma.masked_invalid: NaN cells become masked cells
masked_invalid(a) ==
    [shape |-> a.shape,
     cells |-> [p \in Cells(a.shape) |-> [mask |-> a.cells[p].nan, v |-> a.cells[p].v]]]

\* ------------------------------------------------------------- _get_ndvi
\* numpy broadcasting of two 2-D shapes
Broadcastable(s1, s2) ==
    \A k \in 1..2 : s1[k] = s2[k] \/ s1[k] = 1 \/ s2[k] = 1
BroadcastShape(s1, s2) ==
    << IF s1[1] = 1 THEN s2[1] ELSE s1[1], IF s1[2] = 1 THEN s2[2] ELSE s1[2] >>
\* the cell of a that pairs with position p of the broadcast result
At(a, p) ==
    a.cells[<< IF a.shape[1] = 1 THEN 1 ELSE p[1], IF a.shape[2] = 1 THEN 1 ELSE p[2] >>]

\* astype(float)
astype_float(v) == FromInt(v)

\* NdviCell with numerator and divisor exchanged: (nir + red) / (nir - red)
NdviCell_swapped(nir, red) ==
    LET n == astype_float(nir.v)
        r == astype_float(red.v)
        num == RatAdd(n, r)
        den == RatSub(n, r)
    IN  IF nir.mask \/ red.mask \/ den.num = 0
        THEN [mask |-> TRUE, val |-> FromInt(0)]
        ELSE [mask |-> FALSE, val |-> RatDiv(num, den)]

\* (nir - red) / (nir + red) on one pair of masked cells: numpy.ma masks the
\* quotient where an operand is masked or the divisor is zero.
NdviCell(nir, red) ==
    LET n == astype_float(nir.v)
        r == astype_float(red.v)
        num == RatSub(n, r)
        den == RatAdd(n, r)
    IN  IF nir.mask \/ red.mask \/ den.num = 0
        THEN [mask |-> TRUE, val |-> FromInt(0)]
        ELSE [mask |-> FALSE, val |-> RatDiv(num, den)]

_get_ndvi(nir, red) ==
    LET shape == BroadcastShape(nir.shape, red.shape)
    IN  [shape |-> shape,
         cells |-> [p \in Cells(shape) |-> NdviCell(At(nir, p), At(red, p))]]

\* -------------------------------------------------- masked-array statistics
Valid(a) == { p \in Cells(a.shape) : ~a.cells[p].mask }
Compressed(a) == { a.cells[p].val : p \in Valid(a) }

RECURSIVE RatSum(_, _)
RatSum(f, S) ==
    IF S = {}
    THEN FromInt(0)
    ELSE LET p == CHOOSE q \in S : TRUE
         IN  RatAdd(f[p], RatSum(f, S \ {p}))

\* ma_mean counting every masked cell as a 0: the sum over all the cells
ma_mean_zero_filled(a) ==
    IF Valid(a) = {}
    THEN Masked
    ELSE RatDiv(RatSum([p \in Valid(a) |-> a.cells[p].val], Valid(a)), FromInt(Size(a)))

ma_mean(a) ==
    IF Valid(a) = {}
    THEN Masked
    ELSE RatDiv(RatSum([p \in Valid(a) |-> a.cells[p].val], Valid(a)),
                FromInt(Cardinality(Valid(a))))
ma_max(a) ==
    IF Valid(a) = {}
    THEN Masked
    ELSE CHOOSE x \in Compressed(a) : \A y \in Compressed(a) : RatLe(y, x)
ma_min(a) ==
    IF Valid(a) = {}
    THEN Masked
    ELSE CHOOSE x \in Compressed(a) : \A y \in Compressed(a) : RatLe(x, y)
\* std() is the square root of the mean squared deviation; the model keeps
\* the square, [sq |-> variance].
ma_std(a) ==
    IF Valid(a) = {}
    THEN Masked
    ELSE LET m == ma_mean(a)
             dev == [p \in Valid(a) |->
                        RatMul(RatSub(a.cells[p].val, m), RatSub(a.cells[p].val, m))]
         IN  [sq |-> RatDiv(RatSum(dev, Valid(a)), FromInt(Cardinality(Valid(a))))]

\* ------------------------------------------------------------------- state
VARIABLES
    rev,               \* which revision of the script runs
    pc,                \* position of the invocation of calc_ndvi
    outcome,           \* how the invocation ended
    printed,           \* the messages printed so far, in order
    file_path,         \* calc_ndvi's argument; read at line 155 only, and
                       \* forgotten here once the loop over the bands starts
    full_statistics,   \* calc_ndvi's argument
    geometry, bbox,    \* locals of calc_ndvi
    search_items,      \* items of get_latest_sentinel_files: the dates of
                       \* the search results, forgotten with file_path
    latest,            \* local latest_data: the two locators
    band,              \* position of the loop over the locators, 1..2
    url_fp,            \* the raster open for the current band
    pixel_upper_left, pixel_lower_right,
    window, subset,
    tmp,               \* the bands whose NamedTemporaryFile exists
    ndvi_data,         \* masked array per band
    searched,          \* get_latest_sentinel_files has been entered
    reads,             \* the bands whose windowed read has been issued
    latest_data, ndvi_array, ndvi_avg, ndvi_max, ndvi_min, ndvi_std  \* self.*

vars ==
    << rev, pc, outcome, printed, file_path, full_statistics, geometry, bbox,
       search_items, latest, band, url_fp, pixel_upper_left, pixel_lower_right,
       window, subset, tmp, ndvi_data, searched, reads,
       latest_data, ndvi_array, ndvi_avg, ndvi_max, ndvi_min, ndvi_std >>

fields == << latest_data, ndvi_array, ndvi_avg, ndvi_max, ndvi_min, ndvi_std >>
bandLocals == << url_fp, pixel_upper_left, pixel_lower_right, window, subset, tmp >>

NoPixel == <<0, 0>>
NoOutcome == [kind |-> "none", status |-> 0, exc |-> ""]
Returned == [kind |-> "returned", status |-> 0, exc |-> ""]
\* An exception nobody catches ends the interpreter with status 1.
Uncaught(e) == [kind |-> "raised", status |-> 1, exc |-> e]
\* exit() with no argument raises SystemExit(None): status 0.
exit == [kind |-> "exit", status |-> 0, exc |-> "SystemExit"]

\* NDVICalc.__init__
Init ==
    /\ rev \in Revisions
    /\ pc = "idle"
    /\ outcome = NoOutcome
    /\ printed = <<>>
    /\ file_path = None
    /\ full_statistics = FALSE
    /\ geometry = None
    /\ bbox = NoBBox
    /\ search_items = <<>>
    /\ latest = None
    /\ band = 0
    /\ url_fp = None
    /\ pixel_upper_left = NoPixel
    /\ pixel_lower_right = NoPixel
    /\ window = None
    /\ subset = None
    /\ tmp = {}
    /\ ndvi_data = [red |-> None, nir |-> None]
    /\ searched = FALSE
    /\ reads = {}
    /\ latest_data = None
    /\ ndvi_array = None
    /\ ndvi_avg = None
    /\ ndvi_max = None
    /\ ndvi_min = None
    /\ ndvi_std = None

\* The invocation ends here: with an exit status, or back in the caller.
End(how, msgs) ==
    /\ pc' = "done"
    /\ outcome' = how
    /\ printed' = printed \o msgs

\* calc_ndvi, lines 155-160: resolve the geometry, abort on None, take the
\* bounding box.  The older script has no None check.
Resolve(src, full) ==
    /\ pc = "idle"
    /\ file_path' = src
    /\ full_statistics' = full
    /\ LET g == _get_file_geometry(rev, src)
       IN  IF g.kind = "raise"
           THEN End(Uncaught(g.exc), g.out) /\ UNCHANGED <<geometry, bbox>>
           ELSE IF g.val = None /\ rev = "ndvicalc"
           THEN /\ End(exit, g.out \o << Msg("Provided geometry is invalid. Aborting...", None) >>)
                /\ geometry' = g.val
                /\ UNCHANGED bbox
           ELSE IF g.val = None
           THEN End(Uncaught("TypeError"), g.out) /\ geometry' = g.val /\ UNCHANGED bbox
           ELSE IF ~HasCoordinates(g.val)
           THEN End(Uncaught("ValueError"), g.out) /\ geometry' = g.val /\ UNCHANGED bbox
           ELSE /\ geometry' = g.val
                /\ bbox' = bounds(g.val)
                /\ pc' = "discover"
                /\ printed' = printed \o g.out
                /\ UNCHANGED outcome
    /\ UNCHANGED << rev, search_items, latest, band, bandLocals, ndvi_data, searched,
                    reads, fields >>

\* calc_ndvi, line 161: get_latest_sentinel_files(geometry)
Discover(items) ==
    /\ pc = "discover"
    /\ searched' = TRUE
    /\ search_items' = items
    /\ LET r == get_latest_sentinel_files(items)
       IN  IF r.kind = "raise"
           THEN End(Uncaught(r.exc), r.out) /\ UNCHANGED <<latest, latest_data, band>>
           ELSE /\ latest_data' = [date |-> LastDate(items)]
                /\ latest' = r.val
                /\ band' = 1
                /\ pc' = "open"
                /\ printed' = printed \o r.out
                /\ UNCHANGED outcome
    /\ UNCHANGED << rev, file_path, full_statistics, geometry, bbox, bandLocals,
                    ndvi_data, reads, ndvi_array, ndvi_avg, ndvi_max, ndvi_min, ndvi_std >>

\* lines 165-186: open the band's raster, find the two corner pixels, abort
\* when one of the four numbers is negative.
OpenBand(grid) ==
    /\ pc = "open"
    /\ LET ul == PixelUpperLeft(grid, bbox)
           lr == PixelLowerRight(grid, bbox)
       IN  /\ pixel_upper_left' = ul
           /\ pixel_lower_right' = lr
           /\ IF ExtendsDatafile(ul, lr)
              THEN /\ End(exit, << Msg("Provided geometry extends available datafile.", None),
                                   Msg("Provide a smaller area of interest to get a result.", None) >>)
                   /\ url_fp' = None
              ELSE /\ url_fp' = grid
                   /\ pc' = "read"
                   /\ UNCHANGED << outcome, printed >>
    /\ file_path' = None
    /\ search_items' = <<>>
    /\ UNCHANGED << rev, full_statistics, geometry, bbox, latest, band,
                    window, subset, tmp, ndvi_data, searched, reads, fields >>

\* lines 189-199: the windowed read of band 1
ReadBand ==
    /\ pc = "read"
    /\ LET win == WindowFromSlices(pixel_upper_left, pixel_lower_right)
       IN  /\ window' = win
           /\ \E data \in RawArrays(ReadShape(url_fp, win)) : subset' = data
    /\ reads' = reads \cup {BandOrder[band]}
    /\ pc' = "reproject"
    /\ UNCHANGED << rev, outcome, printed, file_path, search_items, full_statistics,
                    geometry, bbox, latest, band, url_fp, pixel_upper_left, pixel_lower_right, tmp,
                    ndvi_data, searched, fields >>

\* line 229: entering the with block makes the band's temporary file.
NamedTemporaryFile(files, b) == files \cup {b}

\* A with block that never deletes its file.
TmpExit_leak(files, b) == files
\* lines 229-250: leaving the with block, by its end or by an exception,
\* deletes the band's temporary file.
TmpExit(files, b) == files \ {b}

\* lines 201-245: the destination grid, the temporary file, the warp into it.
\* A read that returned no pixel has no destination grid: the library raises
\* before the temporary file is made.  The warp itself may fail (ok = FALSE):
\* the exception leaves both with blocks.
Reproject(ok) ==
    /\ pc = "reproject"
    /\ IF Size(subset) = 0
       THEN /\ End(Uncaught("ValueError"), <<>>)
            /\ url_fp' = None
            /\ UNCHANGED tmp
       ELSE IF ok
       THEN /\ tmp' = NamedTemporaryFile(tmp, BandOrder[band])
            /\ pc' = "mask"
            /\ UNCHANGED << outcome, printed, url_fp >>
       ELSE /\ End(Uncaught("RasterioError"), <<>>)
            /\ url_fp' = None
            /\ tmp' = TmpExit(NamedTemporaryFile(tmp, BandOrder[band]), BandOrder[band])
    /\ UNCHANGED << rev, file_path, search_items, full_statistics, geometry, bbox,
                    latest, band, pixel_upper_left, pixel_lower_right, window, subset,
                    ndvi_data, searched, reads, fields >>

\* lines 246-250: mask to the polygon, keep the masked array; leaving the
\* with blocks deletes the temporary file and closes the raster.  Reopening
\* the file or masking it may fail (ok = FALSE): the exception leaves the
\* with blocks the same way and no array is kept.
MaskBand(ok) ==
    /\ pc = "mask"
    /\ tmp' = TmpExit(tmp, BandOrder[band])
    /\ url_fp' = None
    /\ IF ok
       THEN /\ ndvi_data' = [ndvi_data EXCEPT ![BandOrder[band]] = masked_invalid(subset)]
            /\ pixel_upper_left' = NoPixel
            /\ pixel_lower_right' = NoPixel
            /\ window' = None
            /\ subset' = None
            /\ IF band < Len(BandOrder)
               THEN band' = band + 1 /\ pc' = "open"
               ELSE band' = band /\ pc' = "index"
            /\ UNCHANGED << outcome, printed >>
       ELSE /\ End(Uncaught("RasterioIOError"), <<>>)
            /\ UNCHANGED << ndvi_data, pixel_upper_left, pixel_lower_right, window,
                            subset, band >>
    /\ UNCHANGED << rev, file_path, search_items, full_statistics, geometry, bbox,
                    latest, searched, reads, fields >>

\* The statistics printed and, in the package, stored.
StatLines(arr, full) ==
    << Msg("Average ndvi", ma_mean(arr)) >> \o
    (IF full
     THEN << Msg("Max ndvi", ma_max(arr)), Msg("Min ndvi", ma_min(arr)),
             Msg("Std ndvi", ma_std(arr)) >>
     ELSE <<>>)

\* A statistic written whatever full_statistics says.
StoredStat_always(full, old, new) == new
\* lines 257-260: max, min and std are assigned only under full_statistics;
\* without it the field keeps what it held.
StoredStat(full, old, new) == IF full THEN new ELSE old

\* lines 252-263: the index and its statistics.  Shapes numpy cannot
\* broadcast raise ValueError in the subtraction.
ComputeIndex ==
    /\ pc = "index"
    /\ IF ~Broadcastable(ndvi_data.nir.shape, ndvi_data.red.shape)
       THEN /\ End(Uncaught("ValueError"), <<>>)
            /\ UNCHANGED << ndvi_array, ndvi_avg, ndvi_max, ndvi_min, ndvi_std >>
       ELSE LET arr == _get_ndvi(ndvi_data.nir, ndvi_data.red)
            IN  /\ End(Returned, StatLines(arr, full_statistics))
                /\ IF rev = "ndvicalc"
                   THEN /\ ndvi_array' = arr
                        /\ ndvi_avg' = ma_mean(arr)
                        /\ ndvi_max' = StoredStat(full_statistics, ndvi_max, ma_max(arr))
                        /\ ndvi_min' = StoredStat(full_statistics, ndvi_min, ma_min(arr))
                        /\ ndvi_std' = StoredStat(full_statistics, ndvi_std, ma_std(arr))
                   ELSE UNCHANGED << ndvi_array, ndvi_avg, ndvi_max, ndvi_min, ndvi_std >>
    /\ UNCHANGED << rev, file_path, search_items, full_statistics, geometry, bbox,
                    latest, band, bandLocals, ndvi_data, searched, reads, latest_data >>

Next ==
    \/ \E src \in Sources, full \in BOOLEAN : Resolve(src, full)
    \/ \E items \in ItemLists : Discover(items)
    \/ \E grid \in RasterGrids : OpenBand(grid)
    \/ ReadBand
    \/ \E ok \in BOOLEAN : Reproject(ok)
    \/ \E ok \in BOOLEAN : MaskBand(ok)
    \/ ComputeIndex

Spec == Init /\ [][Next]_vars

\* ------------------------------------------- several calls on one object
\* The package's object is kept by its caller and calc_ndvi called on it
\* again (the tests do so): the locals of the call are fresh, ndvi_data is
\* {} again (line 162), the fields keep what the earlier calls wrote.
Again ==
    /\ pc = "done"
    /\ pc' = "idle"
    /\ outcome' = NoOutcome
    /\ printed' = <<>>
    /\ file_path' = None
    /\ full_statistics' = FALSE
    /\ geometry' = None
    /\ bbox' = NoBBox
    /\ search_items' = <<>>
    /\ latest' = None
    /\ band' = 0
    /\ url_fp' = None
    /\ pixel_upper_left' = NoPixel
    /\ pixel_lower_right' = NoPixel
    /\ window' = None
    /\ subset' = None
    /\ tmp' = {}
    /\ ndvi_data' = [red |-> None, nir |-> None]
    /\ searched' = FALSE
    /\ reads' = {}
    /\ UNCHANGED << rev, fields >>

\* The inputs of the calls of a sequence: a local file holding one Feature,
\* a search that finds one scene, a raster covering every polygon, pixels
\* that are numbers above 0.
SeqSources == { s \in Sources : s.kind = "path" /\ s.body \in Features }
SeqItemLists == { il \in ItemLists : Len(il) = 1 }
SeqGrids ==
    { g \in RasterGrids :
        /\ g.left = 0 /\ g.top = MaxDeg * PixelSize
        /\ g.width = MaxSize /\ g.height = MaxSize }
SeqPixels(a) == \A p \in Cells(a.shape) : ~a.cells[p].nan /\ a.cells[p].v > 0

InitSeq == Init /\ rev = "ndvicalc"

NextSeq ==
    \/ \E src \in SeqSources, full \in BOOLEAN : Resolve(src, full)
    \/ \E items \in SeqItemLists : Discover(items)
    \/ \E grid \in SeqGrids : OpenBand(grid)
    \/ ReadBand /\ SeqPixels(subset')
    \/ \E ok \in BOOLEAN : Reproject(ok)
    \/ \E ok \in BOOLEAN : MaskBand(ok)
    \/ ComputeIndex
    \/ Again

SpecSeq == InitSeq /\ [][NextSeq]_vars

\* ================================================================== claims
\* The parsed content of the geometry source, when the fetch produced one.
HasContent == file_path # None /\ FetchContent(file_path).kind = "content"
TypeOf(doc) == IF "type" \in DOMAIN doc THEN doc.type ELSE ""

\* C1: a Feature resolves to its geometry, a FeatureCollection with at least
\* one feature to the geometry of its first feature whatever follows it, and
\* the geometry returned has exactly the keys type and coordinates.
C1_FirstGeometry ==
    HasContent =>
        LET doc == file_path.body
        IN  /\ TypeOf(doc) = "Feature" =>
                /\ geometry = doc.geometry
                /\ DOMAIN geometry = {"type", "coordinates"}
                /\ ~searched => (pc = "discover" /\ outcome.kind = "none")
            /\ (TypeOf(doc) = "FeatureCollection" /\ Len(doc.features) >= 1) =>
                /\ geometry = doc.features[1].geometry
                /\ DOMAIN geometry = {"type", "coordinates"}
                /\ ~searched => (pc = "discover" /\ outcome.kind = "none")
\* A collection of two features with different geometries has been resolved.
C1_Witness ==
    /\ HasContent
    /\ TypeOf(file_path.body) = "FeatureCollection"
    /\ Len(file_path.body.features) = 2
    /\ file_path.body.features[1].geometry # file_path.body.features[2].geometry
    /\ geometry = file_path.body.features[1].geometry
    /\ pc = "discover"

\* C2: a geometry source holding malformed JSON ends with _get_file_geometry
\* returning None, never with an uncaught exception, and calc_ndvi then
\* aborts before band discovery and before any read.
C2_MalformedIsInvalidGeometry ==
    (file_path # None /\ FetchContent(file_path).kind = "JSONDecodeError") =>
        /\ outcome.kind # "raised"
        /\ geometry = None
        /\ pc = "done"
        /\ ~searched
        /\ reads = {}

\* C3: parsed content whose type is neither Feature nor FeatureCollection
\* fails as an invalid geometry, and calc_ndvi goes on neither to band
\* discovery nor to extraction.
C3_OtherTypeIsInvalidGeometry ==
    (HasContent /\ TypeOf(file_path.body) \notin {"", "Feature", "FeatureCollection"}) =>
        /\ geometry = None
        /\ pc = "done"
        /\ ~searched
        /\ reads = {}

NonNegative(win) ==
    win.row_start >= 0 /\ win.row_stop >= 0 /\ win.col_start >= 0 /\ win.col_stop >= 0
\* C4: a windowed read is issued only with all four bounds of its window
\* >= 0; when a corner pixel is negative the invocation has aborted and the
\* read of that band was never issued.
C4_ReadOnlyNonNegative ==
    /\ window # None => NonNegative(window)
    /\ (\E i \in 1..4 : (pixel_upper_left \o pixel_lower_right)[i] < 0) =>
          /\ pc = "done"
          /\ outcome.kind = "exit"
          /\ BandOrder[band] \notin reads
          /\ window = None
\* The first band was read; the second band's raster starts east of the
\* polygon and the invocation aborted without reading it.
C4_Witness ==
    /\ pc = "done"
    /\ outcome.kind = "exit"
    /\ band = 2
    /\ reads = {"red"}
    /\ pixel_upper_left[2] < 0

\* The raster's footprint and the bounding box, in native units.
West(bb) == coord_upper_left(bb)[1]
North(bb) == coord_upper_left(bb)[2]
East(bb) == coord_lower_right(bb)[1]
South(bb) == coord_lower_right(bb)[2]
Right(fp) == fp.left + fp.width * PixelSize
Bottom(fp) == fp.top - fp.height * PixelSize
\* The bounding box overlaps the raster and reaches beyond it on some side.
PartlyOutside(fp, bb) ==
    /\ West(bb) < Right(fp) /\ East(bb) > fp.left
    /\ South(bb) < fp.top /\ North(bb) > Bottom(fp)
    /\ \/ West(bb) < fp.left
       \/ North(bb) > fp.top
       \/ East(bb) > Right(fp)
       \/ South(bb) < Bottom(fp)
\* C5: for a polygon whose bounding box lies partly outside the raster on any
\* side (west, north, east or south), no windowed read of that raster is
\* performed.
C5_OutsideNeverRead ==
    (url_fp # None /\ PartlyOutside(url_fp, bbox)) => BandOrder[band] \notin reads

\* x in [-1, 1], for a rational x with positive denominator
InUnit(x) == -x.den <= x.num /\ x.num <= x.den
HasPrinted(text) == \E i \in DOMAIN printed : printed[i].msg = text
Printed(text) == printed[CHOOSE i \in DOMAIN printed : printed[i].msg = text].val

\* C6: with reflectances >= 0 and nir + red # 0 the index is in [-1, 1]:
\* every valid cell of ndvi_array, and the largest and smallest cell printed,
\* lie in [-1, 1].
C6_IndexInRange ==
    /\ ndvi_array # None =>
          \A p \in Valid(ndvi_array) : InUnit(ndvi_array.cells[p].val)
    /\ \A i \in DOMAIN printed :
          (printed[i].msg \in {"Max ndvi", "Min ndvi"} /\ printed[i].val # Masked) =>
              InUnit(printed[i].val)
\* An index strictly between 0 and 1 has been stored: nir = 2, red = 1.
C6_Witness ==
    /\ pc = "done"
    /\ ndvi_array # None
    /\ \E p \in Valid(ndvi_array) :
          /\ ndvi_array.cells[p].val = [num |-> 1, den |-> 3]
          /\ At(ndvi_data.nir, p).v = 2
          /\ At(ndvi_data.red, p).v = 1

\* The cells of the index that pair two valid input cells with nir + red # 0,
\* and the index there, taken from the two extracted bands.
GoodCells ==
    { p \in Cells(BroadcastShape(ndvi_data.nir.shape, ndvi_data.red.shape)) :
        /\ ~At(ndvi_data.nir, p).mask
        /\ ~At(ndvi_data.red, p).mask
        /\ At(ndvi_data.nir, p).v + At(ndvi_data.red, p).v # 0 }
RefIndex ==
    [p \in GoodCells |->
        Rat(At(ndvi_data.nir, p).v - At(ndvi_data.red, p).v,
            At(ndvi_data.nir, p).v + At(ndvi_data.red, p).v)]
SqDev(m) == [p \in GoodCells |-> RatMul(RatSub(RefIndex[p], m), RatSub(RefIndex[p], m))]
Completed == pc = "done" /\ outcome.kind = "returned"

\* C7: a cell with nir + red = 0 or with an invalid input cell is no valid
\* cell of the index array, and mean, min, max and std are those of exactly
\* the cells valid in both bands with a non-zero denominator.
C7_StatsOverValidCells ==
    (Completed /\ GoodCells # {}) =>
        LET n == FromInt(Cardinality(GoodCells))
            m == Printed("Average ndvi")
        IN  /\ HasPrinted("Average ndvi")
            /\ m # Masked
            /\ RatMul(m, n) = RatSum(RefIndex, GoodCells)
            /\ rev = "ndvicalc" =>
                  /\ Valid(ndvi_array) = GoodCells
                  /\ \A p \in GoodCells : ndvi_array.cells[p].val = RefIndex[p]
                  /\ ndvi_avg = m
            /\ full_statistics =>
                  /\ \E p \in GoodCells : RefIndex[p] = Printed("Max ndvi")
                  /\ \A p \in GoodCells : RatLe(RefIndex[p], Printed("Max ndvi"))
                  /\ \E p \in GoodCells : RefIndex[p] = Printed("Min ndvi")
                  /\ \A p \in GoodCells : RatLe(Printed("Min ndvi"), RefIndex[p])
                  /\ RatMul(Printed("Std ndvi").sq, n) = RatSum(SqDev(m), GoodCells)
                  /\ rev = "ndvicalc" =>
                        /\ ndvi_max = Printed("Max ndvi")
                        /\ ndvi_min = Printed("Min ndvi")
                        /\ ndvi_std = Printed("Std ndvi")
\* Full statistics over an array with one cell whose denominator is zero
\* and one valid cell whose index is not 0.
C7_Witness ==
    /\ Completed
    /\ rev = "ndvicalc"
    /\ full_statistics
    /\ \E p \in Cells(ndvi_array.shape) :
          /\ ~At(ndvi_data.nir, p).mask
          /\ ~At(ndvi_data.red, p).mask
          /\ At(ndvi_data.nir, p).v + At(ndvi_data.red, p).v = 0
          /\ ndvi_array.cells[p].mask
    /\ \E p \in Valid(ndvi_array) : ndvi_array.cells[p].val.num # 0

\* C8: when no valid cell remains the statistics fail; calc_ndvi never
\* completes normally with a masked or NaN placeholder stored or printed as
\* a statistic.
C8_NoValidPixelsFails ==
    /\ (pc = "done" /\ ndvi_data.nir # None /\ ndvi_data.red # None
           /\ Broadcastable(ndvi_data.nir.shape, ndvi_data.red.shape)
           /\ GoodCells = {}) => outcome.kind = "raised"
    /\ Completed =>
          /\ \A i \in DOMAIN printed : printed[i].val # Masked
          /\ Masked \notin {ndvi_avg, ndvi_max, ndvi_min, ndvi_std}

\* C9: band arrays of different shapes make the index computation fail, and
\* no index array and no statistic is stored or printed.
C9_MisalignedRaises ==
    (pc = "done" /\ ndvi_data.nir # None /\ ndvi_data.red # None
        /\ ndvi_data.nir.shape # ndvi_data.red.shape) =>
        /\ outcome.kind = "raised"
        /\ ndvi_array = None
        /\ ndvi_avg = None
        /\ ~HasPrinted("Average ndvi")

\* C10: a fatal condition detected by calc_ndvi (invalid geometry, geometry
\* out of the raster's bounds) ends the invocation with a non-zero exit
\* status after printing a message, and no result.
C10_FatalExitsNonZero ==
    (pc = "done" /\ outcome.kind = "exit") =>
        /\ outcome.status # 0
        /\ Len(printed) >= 1
        /\ ndvi_array = None
        /\ ndvi_avg = None

\* The search has returned, and returned no item.
ZeroItems == searched /\ search_items = <<>> /\ latest = None
\* C11: when the catalog search returns zero items the invocation ends in the
\* NoImageryFound condition of its own, not in a generic indexing failure,
\* and no raster is opened.
C11_NoImageryFound ==
    ZeroItems =>
        /\ pc = "done"
        /\ outcome.kind = "raised"
        /\ outcome.exc = "NoImageryFound"
        /\ url_fp = None
        /\ reads = {}

\* C13: for a non-empty list of search results the timestamp recorded in
\* latest_data is the date of the scene whose red and nir locators are
\* returned, whatever the order of the list.
C13_TimestampIsSourceScene ==
    latest # None =>
        /\ latest_data.date = latest.red.scene
        /\ latest_data.date = latest.nir.scene

\* C12: a band's temporary reprojection file exists only after that band's
\* windowed read and only while that band is being masked; it is gone, on the
\* normal path and on every error path, before the next band is opened and
\* before the index is computed, so two bands' files never exist together;
\* the index is computed only when both bands' masked arrays exist.
C12_TmpLifetime ==
    /\ Cardinality(tmp) <= 1
    /\ tmp # {} =>
        /\ pc = "mask"
        /\ tmp = {BandOrder[band]}
        /\ BandOrder[band] \in reads
    /\ pc = "index" => (ndvi_data.red # None /\ ndvi_data.nir # None)
\* The second band failed in the warp or in the masking, after the first
\* band's array had been kept, and no temporary file is left.
C12_Witness ==
    /\ pc = "done"
    /\ outcome.kind = "raised"
    /\ outcome.exc \in {"RasterioError", "RasterioIOError"}
    /\ band = 2
    /\ ndvi_data.red # None
    /\ reads = {"red", "nir"}
    /\ tmp = {}

\* The step in which a call of calc_ndvi computes the index and returns.
IndexReturns == pc = "index" /\ outcome'.kind = "returned"
\* C14: a successful call without full_statistics writes ndvi_array and
\* ndvi_avg and leaves ndvi_max, ndvi_min and ndvi_std as they were; a
\* successful call with full_statistics writes all five from its own array;
\* no other step writes the three.  So over any sequence of calls on one
\* object the three hold None or the statistics of the most recent
\* successful full_statistics call.
C14_StatsFromLastFullCall ==
    [][ /\ (IndexReturns /\ ~full_statistics) =>
            /\ ndvi_array' = _get_ndvi(ndvi_data.nir, ndvi_data.red)
            /\ ndvi_avg' = ma_mean(ndvi_array')
            /\ UNCHANGED << ndvi_max, ndvi_min, ndvi_std >>
        /\ (IndexReturns /\ full_statistics) =>
            /\ ndvi_array' = _get_ndvi(ndvi_data.nir, ndvi_data.red)
            /\ ndvi_avg' = ma_mean(ndvi_array')
            /\ ndvi_max' = ma_max(ndvi_array')
            /\ ndvi_min' = ma_min(ndvi_array')
            /\ ndvi_std' = ma_std(ndvi_array')
        /\ ~IndexReturns => UNCHANGED << ndvi_max, ndvi_min, ndvi_std >>
      ]_vars
\* A call without full_statistics has returned on an object whose earlier
\* full_statistics call saw another array: max and min are not those of
\* the array and the average now in the fields.
C14_Witness ==
    /\ Completed
    /\ ~full_statistics
    /\ ndvi_max \notin {None, Masked}
    /\ ndvi_array # None
    /\ ndvi_avg = ma_mean(ndvi_array)
    /\ ndvi_max # ma_max(ndvi_array)
    /\ ndvi_min # ma_min(ndvi_array)
====
